---------------------------- MODULE Spec2Model ----------------------------
(***************************************************************************)
(* Model of streamlit_app.py: the tsunami threat classifier, the arrival   *)
(* estimator, the wave propagation simulator and the dashboard run that    *)
(* builds the tsunami alerts from the earthquake feed.                     *)
(*                                                                         *)
(* Numbers are fixed point.  Magnitudes are hundredths (8.5 is 850),       *)
(* depths are hundredths of a km (50.01 km is 5001), latitudes and         *)
(* longitudes are hundredths of a degree, distances are whole km, travel   *)
(* times are thousandths of an hour, clock readings are seconds, wave      *)
(* heights are millionths of a metre.                                      *)
(***************************************************************************)
EXTENDS Integers, Sequences, FiniteSets, TLC

VARIABLES
    strict_latitude,   \* geopy >= 2 rejects |latitude| > 90; geopy 1.x wraps it
    clock,             \* datetime.now(), seconds
    cls,               \* one call of calculate_tsunami_threat
    sim,               \* one call of simulate_wave_propagation
    arr,               \* one call of calculate_tsunami_arrival_times
    run_pc,            \* the dashboard script's position in the current run
    runs,              \* script runs started so far
    widgets,           \* the sidebar's checkboxes and sliders in the current run
    earthquake_data,   \* st.session_state.earthquake_data
    tsunami_alerts,    \* st.session_state.tsunami_alerts
    usgs_cache,        \* st.cache_data(ttl=60) entry of fetch_usgs_data
    noaa_cache,        \* st.cache_data(ttl=300) entry of fetch_noaa_tsunami_data
    alerts_from        \* what the alert step of the current run did

dashVars == <<run_pc, runs, widgets, earthquake_data, tsunami_alerts,
              usgs_cache, noaa_cache, alerts_from>>

vars == <<strict_latitude, clock, cls, sim, arr, run_pc, runs, widgets,
          earthquake_data, tsunami_alerts, usgs_cache, noaa_cache, alerts_from>>

Hundredths(whole, frac) == whole * 100 + frac

Max(a, b) == IF a >= b THEN a ELSE b

Abs(a) == IF a >= 0 THEN a ELSE -a

\* largest r with r * r <= n, by bisection on lo <= r < hi
RECURSIVE IsqrtIn(_, _, _)
IsqrtIn(n, lo, hi) ==
    IF hi - lo <= 1 THEN lo
    ELSE LET mid == (lo + hi) \div 2
         IN  IF mid * mid <= n THEN IsqrtIn(n, mid, hi) ELSE IsqrtIn(n, lo, mid)

Isqrt(n) == IsqrtIn(n, 0, 46340)

(***************************************************************************)
(* Threat classifier                                                       *)
(***************************************************************************)
Tiers == {"MINIMAL", "LOW", "MEDIUM", "HIGH", "EXTREME"}

\* the classifier with strict comparisons at every boundary
calculate_tsunami_threat_strict(magnitude, depth) ==
    IF magnitude > Hundredths(8, 50) /\ depth < Hundredths(50, 0) THEN "EXTREME"
    ELSE IF magnitude > Hundredths(8, 0) /\ depth < Hundredths(70, 0) THEN "HIGH"
    ELSE IF magnitude > Hundredths(7, 50) /\ depth < Hundredths(100, 0) THEN "MEDIUM"
    ELSE IF magnitude > Hundredths(7, 0) /\ depth < Hundredths(150, 0) THEN "LOW"
    ELSE "MINIMAL"

\* the classifier with the labels of its second and third rows exchanged
calculate_tsunami_threat_swapped(magnitude, depth) ==
    IF magnitude >= Hundredths(8, 50) /\ depth <= Hundredths(50, 0) THEN "EXTREME"
    ELSE IF magnitude >= Hundredths(8, 0) /\ depth <= Hundredths(70, 0) THEN "MEDIUM"
    ELSE IF magnitude >= Hundredths(7, 50) /\ depth <= Hundredths(100, 0) THEN "HIGH"
    ELSE IF magnitude >= Hundredths(7, 0) /\ depth <= Hundredths(150, 0) THEN "LOW"
    ELSE "MINIMAL"

calculate_tsunami_threat(magnitude, depth) ==
    IF magnitude >= Hundredths(8, 50) /\ depth <= Hundredths(50, 0) THEN "EXTREME"
    ELSE IF magnitude >= Hundredths(8, 0) /\ depth <= Hundredths(70, 0) THEN "HIGH"
    ELSE IF magnitude >= Hundredths(7, 50) /\ depth <= Hundredths(100, 0) THEN "MEDIUM"
    ELSE IF magnitude >= Hundredths(7, 0) /\ depth <= Hundredths(150, 0) THEN "LOW"
    ELSE "MINIMAL"


(***************************************************************************)
(* geopy: Point normalisation and geodesic((lat1, lon1), (lat2, lon2)).km  *)
(***************************************************************************)
\* geopy >= 2: Point raises ValueError for |latitude| > 90
PointRaises(lat) == strict_latitude /\ Abs(lat) > Hundredths(90, 0)

\* geopy 1.x: latitude = ((latitude + 90) % 180) - 90
NormLat(lat) ==
    IF Abs(lat) > Hundredths(90, 0)
    THEN ((lat + Hundredths(90, 0)) % Hundredths(180, 0)) - Hundredths(90, 0)
    ELSE lat

\* longitude = ((longitude + 180) % 360) - 180, in every geopy
NormLon(lon) ==
    IF Abs(lon) > Hundredths(180, 0)
    THEN ((lon + Hundredths(180, 0)) % Hundredths(360, 0)) - Hundredths(180, 0)
    ELSE lon

\* 1000 * cos(latitude) at 0, 5, ..., 90 degrees
CosTable ==
    <<1000, 996, 985, 966, 940, 906, 866, 819, 766, 707,
      643, 574, 500, 423, 342, 259, 174, 87, 0, 0>>

\* 1000 * cos(lat), lat in 0..9000, linear between the table's entries
Cos1000(lat) ==
    LET k    == lat \div 500
        frac == lat % 500
        c0   == CosTable[k + 1]
        c1   == CosTable[k + 2]
    IN  c0 - ((c0 - c1) * frac) \div 500

\* surface distance in km between two normalised points: the length of the
\* (dlat, dlon * cos(mean latitude)) arc at 111.19 km per degree
geodesic(lat1, lon1, lat2, lon2) ==
    LET a1   == NormLat(lat1)
        a2   == NormLat(lat2)
        dlat == Abs(a2 - a1)
        dl   == Abs(NormLon(lon2) - NormLon(lon1))
        dlon == IF dl > Hundredths(180, 0) THEN Hundredths(360, 0) - dl ELSE dl
        x    == (dlon * Cos1000(Abs(a1 + a2) \div 2)) \div 1000
        r    == Isqrt(dlat * dlat + x * x)
    IN  (r * 11119) \div 10000

(***************************************************************************)
(* numpy: linspace, slicing with a step, exp                               *)
(***************************************************************************)
\* np.linspace(start, stop, num)[i] = start + i * (stop - start) / (num - 1)
linspace(start, stop, num) ==
    [i \in 0..(num - 1) |-> start + (i * (stop - start)) \div (num - 1)]

\* range[2::5]: every step-th value starting from the third
EveryNth_centred(range, num, step) ==
    [k \in 1..((num + step - 1) \div step) |-> range[(k - 1) * step + 2]]

\* every step-th value and the last value as well
EveryNth_inclusive(range, num, step) ==
    [k \in 1..((num + step - 1) \div step + 1) |->
        range[IF (k - 1) * step < num THEN (k - 1) * step ELSE num - 1]]

\* range[::step] of a range of num values, as a sequence
EveryNth(range, num, step) ==
    [k \in 1..((num + step - 1) \div step) |-> range[(k - 1) * step]]

\* 10000 * exp(-a) for a = 0, 1, ..., 10 and 10000 * exp(-b / 10) for b = 0..9
ExpWhole == <<10000, 3679, 1353, 498, 183, 67, 25, 9, 3, 1, 0>>

ExpTenth == <<10000, 9048, 8187, 7408, 6703, 6065, 5488, 4966, 4493, 4066>>

\* 10000 * exp(-k / 10)
ExpTenths(k) ==
    IF k \div 10 >= Len(ExpWhole) THEN 0
    ELSE (ExpWhole[(k \div 10) + 1] * ExpTenth[(k % 10) + 1]) \div 10000

\* 10000 * np.exp(-distance / 2000), linear within each 200 km
ExpNeg2000(distance) ==
    LET k    == distance \div 200
        frac == distance % 200
        e0   == ExpTenths(k)
        e1   == ExpTenths(k + 1)
    IN  e0 - ((e0 - e1) * frac) \div 200

(***************************************************************************)
(* Propagation simulator: simulate_wave_propagation                        *)
(***************************************************************************)
tsunami_speed == 800

\* the hours_ahead values tried are -1..MaxHours
MaxHours == 3

\* the travel time at 500 km/h
travel_time_of_slow(distance) == (distance * 1000) \div 500

\* the travel time in whole hours: distance // tsunami_speed
travel_time_of_whole_hours(distance) == (distance \div tsunami_speed) * 1000

\* distance / tsunami_speed, in thousandths of an hour
travel_time_of(distance) == (distance * 1000) \div tsunami_speed

\* the wave height with -distance // 2000 in the exponent
wave_height_of_stepped(magnitude, distance) ==
    Max(0, (magnitude - Hundredths(6, 0)) * ExpTenths(10 * (distance \div 2000)))

\* max(0, (magnitude - 6) * np.exp(-distance / 2000)), millionths of a metre
wave_height_of(magnitude, distance) ==
    Max(0, (magnitude - Hundredths(6, 0)) * ExpNeg2000(distance))

\* 0.1 m, the floor a wave must exceed to be included
SignificantWave == 100000

lat_range(eq_lat) ==
    linspace(eq_lat - Hundredths(20, 0), eq_lat + Hundredths(20, 0), 50)

lon_range(eq_lon) ==
    linspace(eq_lon - Hundredths(30, 0), eq_lon + Hundredths(30, 0), 50)

\* lat_range[::5] and lon_range[::5]
sampled_lats(eq_lat) == EveryNth(lat_range(eq_lat), 50, 5)

sampled_lons(eq_lon) == EveryNth(lon_range(eq_lon), 50, 5)

\* the loop body without the travel_time <= hour test
point_samples_before_arrival(eq_lat, eq_lon, magnitude, hour, lat, lon) ==
    LET distance    == geodesic(eq_lat, eq_lon, lat, lon)
        wave_height == wave_height_of(magnitude, distance)
    IN  IF wave_height > SignificantWave
        THEN << [hour        |-> hour,
                 latitude    |-> lat,
                 longitude   |-> lon,
                 wave_height |-> wave_height,
                 distance    |-> distance] >>
        ELSE << >>

\* the loop body keeping a point only in the hour the wavefront reaches it
point_samples_wavefront(eq_lat, eq_lon, magnitude, hour, lat, lon) ==
    LET distance    == geodesic(eq_lat, eq_lon, lat, lon)
        travel_time == travel_time_of(distance)
        wave_height == wave_height_of(magnitude, distance)
    IN  IF /\ travel_time <= hour * 1000
           /\ travel_time > (hour - 1) * 1000
           /\ wave_height > SignificantWave
        THEN << [hour        |-> hour,
                 latitude    |-> lat,
                 longitude   |-> lon,
                 wave_height |-> wave_height,
                 distance    |-> distance] >>
        ELSE << >>

\* the body of the two inner loops for one grid point: the samples appended
point_samples(eq_lat, eq_lon, magnitude, hour, lat, lon) ==
    LET distance    == geodesic(eq_lat, eq_lon, lat, lon)
        travel_time == travel_time_of(distance)
        wave_height == wave_height_of(magnitude, distance)
    IN  IF travel_time <= hour * 1000 /\ wave_height > SignificantWave
        THEN << [hour        |-> hour,
                 latitude    |-> lat,
                 longitude   |-> lon,
                 wave_height |-> wave_height,
                 distance    |-> distance] >>
        ELSE << >>

\* the inner loop stopping one longitude short
RECURSIVE row_samples_short(_, _, _, _, _, _, _)
row_samples_short(eq_lat, eq_lon, magnitude, hour, lat, lons, j) ==
    IF j >= Len(lons) THEN << >>
    ELSE point_samples(eq_lat, eq_lon, magnitude, hour, lat, lons[j])
         \o row_samples_short(eq_lat, eq_lon, magnitude, hour, lat, lons, j + 1)

\* for lon in lon_range[::5], from the j-th longitude on: the samples appended
RECURSIVE row_samples(_, _, _, _, _, _, _)
row_samples(eq_lat, eq_lon, magnitude, hour, lat, lons, j) ==
    IF j > Len(lons) THEN << >>
    ELSE point_samples(eq_lat, eq_lon, magnitude, hour, lat, lons[j])
         \o row_samples(eq_lat, eq_lon, magnitude, hour, lat, lons, j + 1)

\* for lat in lat_range[::5], from the i-th latitude on: the samples one hour appends
RECURSIVE hour_samples(_, _, _, _, _, _, _)
hour_samples(eq_lat, eq_lon, magnitude, hour, lats, lons, i) ==
    IF i > Len(lats) THEN << >>
    ELSE row_samples(eq_lat, eq_lon, magnitude, hour, lats[i], lons, 1)
         \o hour_samples(eq_lat, eq_lon, magnitude, hour, lats, lons, i + 1)

\* the samples inserted at the front instead of appended
extended_in_front(simulation_data, samples) == samples \o simulation_data

\* simulation_data.append(...), for all the samples of one hour
extended(simulation_data, samples) == simulation_data \o samples

\* some geodesic call of the grid loop raises ValueError
grid_raises(eq_lat) ==
    \/ PointRaises(eq_lat)
    \/ \E k \in DOMAIN sampled_lats(eq_lat) : PointRaises(sampled_lats(eq_lat)[k])

SimLats == {Hundredths(0 - 85, 0), 0, Hundredths(56, 0), Hundredths(80, 0)}
SimLons == {Hundredths(0 - 175, 0), 0, Hundredths(164, 0)}
SimMags == {0 - 100, 0, Hundredths(5, 50), Hundredths(6, 0), Hundredths(6, 50), Hundredths(8, 80)}

NoCls == [pc |-> "none"]
NoSim == [pc |-> "none"]
NoArr == [pc |-> "none"]

NoCache == [valid |-> FALSE, at |-> 0, value |-> << >>]

\* the dashboard is not running
NoDash ==
    /\ run_pc = "none"
    /\ runs = 0
    /\ widgets = [use_usgs |-> FALSE, use_noaa |-> FALSE,
                  tsunami_threshold |-> 0, depth_threshold |-> 0]
    /\ earthquake_data = << >>
    /\ tsunami_alerts = << >>
    /\ usgs_cache = NoCache
    /\ noaa_cache = NoCache
    /\ alerts_from = "none"

InitSim ==
    /\ NoDash
    /\ strict_latitude \in BOOLEAN
    /\ clock = 0
    /\ cls = NoCls
    /\ arr = NoArr
    /\ \E eq_lat \in SimLats, eq_lon \in SimLons, magnitude \in SimMags,
          hours_ahead \in (0 - 1)..MaxHours :
          sim = [pc              |-> "loop",
                 eq_lat          |-> eq_lat,
                 eq_lon          |-> eq_lon,
                 magnitude       |-> magnitude,
                 hours_ahead     |-> hours_ahead,
                 hour            |-> 0,
                 simulation_data |-> << >>]

\* one iteration of for hour in range(hours_ahead + 1)
SimHour ==
    /\ sim.pc = "loop"
    /\ sim.hour <= sim.hours_ahead
    /\ IF grid_raises(sim.eq_lat)
       THEN sim' = [sim EXCEPT !.pc = "raised"]
       ELSE sim' = [sim EXCEPT
                      !.simulation_data =
                          extended(@, hour_samples(sim.eq_lat, sim.eq_lon,
                                                   sim.magnitude, sim.hour,
                                                   sampled_lats(sim.eq_lat),
                                                   sampled_lons(sim.eq_lon), 1)),
                      !.hour = @ + 1]
    /\ UNCHANGED <<strict_latitude, clock, cls, arr, dashVars>>

\* return pd.DataFrame(simulation_data)
SimReturn ==
    /\ sim.pc = "loop"
    /\ sim.hour > sim.hours_ahead
    /\ sim' = [sim EXCEPT !.pc = "returned"]
    /\ UNCHANGED <<strict_latitude, clock, cls, arr, dashVars>>

NextSim == SimHour \/ SimReturn

SpecSim == InitSim /\ [][NextSim]_vars

(***************************************************************************)
(* One call of the classifier on inputs around the table's boundaries      *)
(***************************************************************************)
ClsMags ==
    {0, Hundredths(6, 50), Hundredths(6, 99), Hundredths(7, 0), Hundredths(7, 49),
     Hundredths(7, 50), Hundredths(7, 99), Hundredths(8, 0), Hundredths(8, 49),
     Hundredths(8, 50), Hundredths(8, 60), Hundredths(9, 0)}

ClsDepths ==
    {0, Hundredths(10, 0), Hundredths(50, 0), Hundredths(50, 1), Hundredths(70, 0),
     Hundredths(70, 1), Hundredths(100, 0), Hundredths(100, 1), Hundredths(150, 0),
     Hundredths(150, 1), Hundredths(200, 0), Hundredths(500, 0)}

InitCls ==
    /\ NoDash
    /\ strict_latitude = TRUE
    /\ clock = 0
    /\ sim = NoSim
    /\ arr = NoArr
    /\ \E magnitude \in ClsMags, depth \in ClsDepths :
          cls = [pc |-> "call", magnitude |-> magnitude, depth |-> depth,
                 result |-> "none"]

Classify ==
    /\ cls.pc = "call"
    /\ cls' = [cls EXCEPT !.pc = "returned",
                          !.result = calculate_tsunami_threat(cls.magnitude, cls.depth)]
    /\ UNCHANGED <<strict_latitude, clock, sim, arr, dashVars>>

NextCls == Classify

SpecCls == InitCls /\ [][NextCls]_vars

(***************************************************************************)
(* Two calls of the classifier in a row, on two magnitudes at one depth    *)
(***************************************************************************)
InitClsPair ==
    /\ NoDash
    /\ strict_latitude = TRUE
    /\ clock = 0
    /\ sim = NoSim
    /\ arr = NoArr
    /\ \E magnitude \in ClsMags, other \in ClsMags, depth \in ClsDepths :
          cls = [pc |-> "call", magnitude |-> magnitude, depth |-> depth,
                 result |-> "none", other_magnitude |-> other,
                 other_result |-> "none"]

ClassifyFirst ==
    /\ cls.pc = "call"
    /\ cls' = [cls EXCEPT !.pc = "second",
                          !.result = calculate_tsunami_threat(cls.magnitude, cls.depth)]
    /\ UNCHANGED <<strict_latitude, clock, sim, arr, dashVars>>

ClassifySecond ==
    /\ cls.pc = "second"
    /\ cls' = [cls EXCEPT !.pc = "returned",
                          !.other_result =
                              calculate_tsunami_threat(cls.other_magnitude, cls.depth)]
    /\ UNCHANGED <<strict_latitude, clock, sim, arr, dashVars>>

NextClsPair == ClassifyFirst \/ ClassifySecond

SpecClsPair == InitClsPair /\ [][NextClsPair]_vars

(***************************************************************************)
(* Arrival estimator: calculate_tsunami_arrival_times                      *)
(***************************************************************************)
\* the table of cities without its last row
cities_short ==
    << [city |-> "Honolulu, HI",        lat |-> 2131,     lon |-> 0 - 15786],
       [city |-> "Los Angeles, CA",     lat |-> 3405,     lon |-> 0 - 11824],
       [city |-> "San Francisco, CA",   lat |-> 3777,     lon |-> 0 - 12242],
       [city |-> "Seattle, WA",         lat |-> 4761,     lon |-> 0 - 12233],
       [city |-> "Tokyo, Japan",        lat |-> 3568,     lon |-> 13965],
       [city |-> "Manila, Philippines", lat |-> 1460,     lon |-> 12098],
       [city |-> "Sydney, Australia",   lat |-> 0 - 3387, lon |-> 15121] >>

cities ==
    << [city |-> "Honolulu, HI",        lat |-> 2131,     lon |-> 0 - 15786],
       [city |-> "Los Angeles, CA",     lat |-> 3405,     lon |-> 0 - 11824],
       [city |-> "San Francisco, CA",   lat |-> 3777,     lon |-> 0 - 12242],
       [city |-> "Seattle, WA",         lat |-> 4761,     lon |-> 0 - 12233],
       [city |-> "Tokyo, Japan",        lat |-> 3568,     lon |-> 13965],
       [city |-> "Manila, Philippines", lat |-> 1460,     lon |-> 12098],
       [city |-> "Sydney, Australia",   lat |-> 0 - 3387, lon |-> 15121],
       [city |-> "Vladivostok, Russia", lat |-> 4311,     lon |-> 13187] >>

\* timedelta(hours=travel_time_hours), in seconds
timedelta_hours(travel_time_hours) == (travel_time_hours * 36) \div 10

\* the clock may advance by up to MaxClock seconds during a call
MaxClock == 2

\* the body of for city, (lat, lon) in cities.items(), with datetime.now() = now
arrival_entry(eq_lat, eq_lon, c, now) ==
    LET distance          == geodesic(eq_lat, eq_lon, c.lat, c.lon)
        travel_time_hours == travel_time_of(distance)
        arrival_time      == now + timedelta_hours(travel_time_hours)
    IN  [city              |-> c.city,
         distance_km       |-> distance,
         travel_time_hours |-> travel_time_hours,
         estimated_arrival |-> arrival_time]

ArrLats == {Hundredths(0 - 95, 0), 0, Hundredths(35, 0), Hundredths(95, 0)}
ArrLons == {Hundredths(0 - 200, 0), 0, Hundredths(140, 0), Hundredths(200, 0)}

InitArr ==
    /\ NoDash
    /\ strict_latitude \in BOOLEAN
    /\ clock = 0
    /\ cls = NoCls
    /\ sim = NoSim
    /\ \E eq_lat \in ArrLats, eq_lon \in ArrLons :
          arr = [pc |-> "loop", eq_lat |-> eq_lat, eq_lon |-> eq_lon,
                 arrival_times |-> << >>]

\* one iteration of the loop over the cities
ArrCity ==
    /\ arr.pc = "loop"
    /\ Len(arr.arrival_times) < Len(cities)
    /\ IF PointRaises(arr.eq_lat)
       THEN arr' = [arr EXCEPT !.pc = "raised"]
       ELSE arr' = [arr EXCEPT
                      !.arrival_times =
                          Append(@, arrival_entry(arr.eq_lat, arr.eq_lon,
                                                  cities[Len(arr.arrival_times) + 1],
                                                  clock))]
    /\ UNCHANGED <<strict_latitude, clock, cls, sim, dashVars>>

\* return arrival_times
ArrReturn ==
    /\ arr.pc = "loop"
    /\ Len(arr.arrival_times) = Len(cities)
    /\ arr' = [arr EXCEPT !.pc = "returned"]
    /\ UNCHANGED <<strict_latitude, clock, cls, sim, dashVars>>

\* the wall clock advances while the call runs
ArrTick ==
    /\ arr.pc = "loop"
    /\ clock < MaxClock
    /\ clock' = clock + 1
    /\ UNCHANGED <<strict_latitude, cls, sim, arr, dashVars>>

NextArr == ArrCity \/ ArrReturn \/ ArrTick

SpecArr == InitArr /\ [][NextArr]_vars

(***************************************************************************)
(* One call of each of the three functions, running concurrently: every    *)
(* step of Next is a step of one of the calls                              *)
(***************************************************************************)
InitConc ==
    /\ NoDash
    /\ strict_latitude = TRUE
    /\ clock = 0
    /\ \E magnitude \in {Hundredths(7, 50), Hundredths(8, 50)} :
          cls = [pc |-> "call", magnitude |-> magnitude,
                 depth |-> Hundredths(50, 0), result |-> "none"]
    /\ \E eq_lat \in {Hundredths(56, 0), Hundredths(80, 0)}, hours_ahead \in 0..1 :
          sim = [pc |-> "loop", eq_lat |-> eq_lat, eq_lon |-> Hundredths(164, 0),
                 magnitude |-> Hundredths(8, 80), hours_ahead |-> hours_ahead,
                 hour |-> 0, simulation_data |-> << >>]
    /\ arr = [pc |-> "loop", eq_lat |-> Hundredths(35, 0),
              eq_lon |-> Hundredths(140, 0), arrival_times |-> << >>]

NextConc == NextCls \/ NextSim \/ NextArr

SpecConc == InitConc /\ [][NextConc]_vars

(***************************************************************************)
(* Dashboard: the data fetch layer and the script run                      *)
(***************************************************************************)
\* a JSON null, and the NaN / NaT pandas makes of it
None == 0 - 999999

usgs_ttl == 60

noaa_ttl == 300

\* at most MaxRuns runs of the script are followed
MaxRuns == 3

DataFrame(rows) == [kind |-> "DataFrame", rows |-> rows]

NoneValue == [kind |-> "None", rows |-> << >>]

\* timedelta(hours=24), in seconds
Day == 24 * 3600

Feature(id, mag, coords, time) ==
    [id |-> id, mag |-> mag, coords |-> coords, time |-> time]

\* event times: an hour before the first run, and almost a day before it
Recent == 0 - 3600
Ageing == 100 - Day

\* the feature lists the feed may hold; coordinates are (lon, lat, depth)
Feeds ==
    { << >>,
      << Feature("a", Hundredths(6, 50), <<14000, 3500, Hundredths(30, 0)>>, Recent),
         Feature("m", Hundredths(7, 10), <<14200, 3800, Hundredths(100, 0)>>, Recent),
         Feature("b", Hundredths(8, 80), <<16400, 5600, Hundredths(20, 0)>>, Ageing) >>,
      << Feature("c", None, <<0, 0, Hundredths(10, 0)>>, Recent),
         Feature("d", 0 - 50, <<0, 0, Hundredths(10, 0)>>, Recent),
         Feature("e", Hundredths(7, 60), <<14000, 3500, 0 - 100>>, Recent),
         Feature("f", 0, <<100, 100>>, Recent) >>,
      << Feature("g", Hundredths(9, 0), <<0, 0, Hundredths(500, 0)>>, Recent),
         Feature("h", Hundredths(7, 20), <<0 - 7000, 0 - 2000, None>>, None),
         Feature("i", Hundredths(8, 0), <<None, 1000, Hundredths(10, 0)>>, Recent) >>,
      << Feature("j", Hundredths(8, 60), <<0, Hundredths(95, 0), Hundredths(10, 0)>>, Recent),
         Feature("k", Hundredths(7, 20), <<12000, 1500, Hundredths(120, 0)>>, Recent) >>,
      << Feature("l", Hundredths(7, 0), <<500>>, Recent) >> }

\* what requests.get and response.json() may give
Responses ==
    {[status |-> 200, features |-> f] : f \in Feeds}
        \cup {[status |-> 503, features |-> << >>]}
        \cup {[status |-> 0, features |-> << >>]}    \* requests.get raised

\* the rows of a feature without the clamps max(0, depth), max(0.1, magnitude)
feature_rows_unclamped(feature) ==
    LET coords    == feature.coords
        magnitude == feature.mag
        depth0    == IF Len(coords) > 2 THEN coords[3] ELSE 0
        depth     == IF depth0 = None THEN 0 ELSE depth0
    IN  IF magnitude = None \/ magnitude < 0
        THEN << >>
        ELSE << [time      |-> feature.time,
                 latitude  |-> coords[2],
                 longitude |-> coords[1],
                 depth     |-> depth,
                 magnitude |-> magnitude,
                 id        |-> feature.id] >>

\* the loop body over data['features']: the rows one feature appends
feature_rows(feature) ==
    LET coords    == feature.coords
        magnitude == feature.mag
        depth0    == IF Len(coords) > 2 THEN coords[3] ELSE 0
        depth     == IF depth0 = None THEN 0 ELSE depth0
    IN  IF magnitude = None \/ magnitude < 0
        THEN << >>
        ELSE << [time      |-> feature.time,
                 latitude  |-> coords[2],
                 longitude |-> coords[1],
                 depth     |-> Max(0, depth),
                 magnitude |-> Max(10, magnitude),
                 id        |-> feature.id] >>

RECURSIVE all_rows(_, _)
all_rows(features, i) ==
    IF i > Len(features) THEN << >>
    ELSE feature_rows(features[i]) \o all_rows(features, i + 1)

\* df.dropna(subset=['magnitude', 'latitude', 'longitude']); df[df['magnitude'] > 0]
clean(rows) ==
    SelectSeq(rows, LAMBDA r : /\ r.magnitude # None
                               /\ r.latitude # None
                               /\ r.longitude # None
                               /\ r.magnitude > 0)

\* the value fetch_usgs_data returns for a response
fetch_usgs_data(response) ==
    IF response.status = 0
    THEN DataFrame(<< >>)                       \* except: return pd.DataFrame()
    ELSE IF response.status # 200
    THEN NoneValue                              \* falls off the end of the function
    ELSE IF \E i \in DOMAIN response.features :
                  /\ response.features[i].mag # None
                  /\ response.features[i].mag >= 0
                  /\ Len(response.features[i].coords) < 2
    THEN DataFrame(<< >>)                       \* IndexError, caught
    ELSE DataFrame(clean(all_rows(response.features, 1)))

\* the eight entries calculate_tsunami_arrival_times returns, the clock read as now
calculate_tsunami_arrival_times(eq_lat, eq_lon, now) ==
    [i \in 1..Len(cities) |-> arrival_entry(eq_lat, eq_lon, cities[i], now)]

\* the filter without the magnitude >= tsunami_threshold test
recent_large_any_magnitude(data, w, now) ==
    SelectSeq(data.rows, LAMBDA eq : /\ eq.depth <= w.depth_threshold
                                     /\ eq.time # None
                                     /\ eq.time >= now - Day)

\* the rows of recent_large
recent_large(data, w, now) ==
    SelectSeq(data.rows, LAMBDA eq : /\ eq.magnitude >= w.tsunami_threshold
                                     /\ eq.depth <= w.depth_threshold
                                     /\ eq.time # None
                                     /\ eq.time >= now - Day)

\* the alert built for one row of recent_large
alert_of(eq, now) ==
    [earthquake_id     |-> eq.id,
     threat_level      |-> calculate_tsunami_threat(eq.magnitude, eq.depth),
     magnitude         |-> eq.magnitude,
     latitude          |-> eq.latitude,
     longitude         |-> eq.longitude,
     time              |-> eq.time,
     estimated_arrival |-> calculate_tsunami_arrival_times(eq.latitude, eq.longitude, now)]

\* the value fetch_noaa_tsunami_data computes from the session's data
fetch_noaa_tsunami_data(data, w, now) ==
    LET large == recent_large(data, w, now)
    IN  IF data.kind = "None" THEN << >>        \* AttributeError, caught
        ELSE IF \E i \in DOMAIN large : PointRaises(large[i].latitude)
        THEN << >>                              \* ValueError, caught
        ELSE [i \in DOMAIN large |-> alert_of(large[i], now)]

CacheHit(cache, ttl) == cache.valid /\ clock - cache.at < ttl

DefaultWidgets ==
    [use_usgs |-> TRUE, use_noaa |-> TRUE,
     tsunami_threshold |-> Hundredths(7, 0), depth_threshold |-> Hundredths(100, 0)]

WidgetChoices ==
    [use_usgs : BOOLEAN, use_noaa : BOOLEAN,
     tsunami_threshold : {Hundredths(6, 0), Hundredths(7, 0)},
     depth_threshold : {Hundredths(100, 0), Hundredths(700, 0)}]

\* seconds between one run and the next
Pauses == {5, 70, 310}

Init ==
    /\ strict_latitude \in BOOLEAN
    /\ clock = 0
    /\ cls = NoCls
    /\ sim = NoSim
    /\ arr = NoArr
    /\ run_pc = "usgs"
    /\ runs = 1
    /\ widgets = DefaultWidgets
    /\ earthquake_data = DataFrame(<< >>)
    /\ tsunami_alerts = << >>
    /\ usgs_cache = NoCache
    /\ noaa_cache = NoCache
    /\ alerts_from = "none"

\* if use_usgs: st.session_state.earthquake_data = fetch_usgs_data()
RunFetchUsgs ==
    /\ run_pc = "usgs"
    /\ IF ~widgets.use_usgs
       THEN UNCHANGED <<earthquake_data, usgs_cache>>
       ELSE IF CacheHit(usgs_cache, usgs_ttl)
       THEN /\ earthquake_data' = usgs_cache.value
            /\ UNCHANGED usgs_cache
       ELSE \E response \in Responses :
               /\ earthquake_data' = fetch_usgs_data(response)
               /\ usgs_cache' = [valid |-> TRUE, at |-> clock,
                                 value |-> fetch_usgs_data(response)]
    /\ run_pc' = "noaa"
    /\ UNCHANGED <<strict_latitude, clock, cls, sim, arr, runs, widgets,
                   tsunami_alerts, noaa_cache, alerts_from>>

\* if use_noaa and not earthquake_data.empty: tsunami_alerts = fetch_noaa_tsunami_data()
RunProcessAlerts ==
    /\ run_pc = "noaa"
    /\ IF ~widgets.use_noaa
       THEN /\ run_pc' = "render"
            /\ alerts_from' = "kept"
            /\ UNCHANGED <<tsunami_alerts, noaa_cache>>
       ELSE IF earthquake_data.kind = "None"
       THEN /\ run_pc' = "crashed"              \* None has no attribute 'empty'
            /\ alerts_from' = "kept"
            /\ UNCHANGED <<tsunami_alerts, noaa_cache>>
       ELSE IF earthquake_data.rows = << >>
       THEN /\ run_pc' = "render"
            /\ alerts_from' = "kept"
            /\ UNCHANGED <<tsunami_alerts, noaa_cache>>
       ELSE IF CacheHit(noaa_cache, noaa_ttl)
       THEN /\ run_pc' = "render"
            /\ alerts_from' = "cached"
            /\ tsunami_alerts' = noaa_cache.value
            /\ UNCHANGED noaa_cache
       ELSE /\ run_pc' = "render"
            /\ alerts_from' = "computed"
            /\ tsunami_alerts' = fetch_noaa_tsunami_data(earthquake_data, widgets, clock)
            /\ noaa_cache' = [valid |-> TRUE, at |-> clock,
                              value |-> fetch_noaa_tsunami_data(earthquake_data,
                                                                widgets, clock)]
    /\ UNCHANGED <<strict_latitude, clock, cls, sim, arr, runs, widgets,
                   earthquake_data, usgs_cache>>

\* the rest of the script: the alerts are displayed and the run ends
RunRender ==
    /\ run_pc = "render"
    /\ run_pc' = "done"
    /\ UNCHANGED <<strict_latitude, clock, cls, sim, arr, runs, widgets,
                   earthquake_data, tsunami_alerts, usgs_cache, noaa_cache,
                   alerts_from>>

\* a widget is changed or the page refreshes: the script runs again
Interact ==
    /\ run_pc \in {"done", "crashed"}
    /\ runs < MaxRuns
    /\ runs' = runs + 1
    /\ \E w \in WidgetChoices : widgets' = w
    /\ \E pause \in Pauses : clock' = clock + pause
    /\ run_pc' = "usgs"
    /\ alerts_from' = "none"
    /\ UNCHANGED <<strict_latitude, cls, sim, arr, earthquake_data,
                   tsunami_alerts, usgs_cache, noaa_cache>>

Next == RunFetchUsgs \/ RunProcessAlerts \/ RunRender \/ Interact

Spec == Init /\ [][Next]_vars

(***************************************************************************)
(* Properties                                                              *)
(***************************************************************************)
\* the documented threat table, rows in priority order
ThreatTable ==
    << [magnitude |-> Hundredths(8, 50), depth |-> Hundredths(50, 0),  tier |-> "EXTREME"],
       [magnitude |-> Hundredths(8, 0),  depth |-> Hundredths(70, 0),  tier |-> "HIGH"],
       [magnitude |-> Hundredths(7, 50), depth |-> Hundredths(100, 0), tier |-> "MEDIUM"],
       [magnitude |-> Hundredths(7, 0),  depth |-> Hundredths(150, 0), tier |-> "LOW"] >>

MatchingRows(magnitude, depth) ==
    {i \in DOMAIN ThreatTable :
        magnitude >= ThreatTable[i].magnitude /\ depth <= ThreatTable[i].depth}

FirstMatchTier(magnitude, depth) ==
    LET rows == MatchingRows(magnitude, depth)
    IN  IF rows = {} THEN "MINIMAL"
        ELSE ThreatTable[CHOOSE i \in rows : \A j \in rows : i <= j].tier

\* C1: the classifier returns the tier of the first row of the table that
\* matches (magnitude >= the row's magnitude and depth <= the row's depth, both
\* inclusive), MINIMAL when none does; so (8.5, 50) is EXTREME, (8.49, 50) and
\* (8.5, 50.01) are HIGH, and any depth above 150 km is MINIMAL.
C1_FirstMatchingRow ==
    cls.pc = "returned" =>
        /\ cls.result = FirstMatchTier(cls.magnitude, cls.depth)
        /\ (cls.magnitude = 850 /\ cls.depth = 5000 => cls.result = "EXTREME")
        /\ (cls.magnitude = 849 /\ cls.depth = 5000 => cls.result = "HIGH")
        /\ (cls.magnitude = 850 /\ cls.depth = 5001 => cls.result = "HIGH")
        /\ (cls.depth > 15000 => cls.result = "MINIMAL")

C1_Witness ==
    /\ cls.pc = "returned"
    /\ cls.magnitude = 850
    /\ cls.depth = 5000
    /\ cls.result = "EXTREME"

\* C2: every sample the simulator holds or returns has distance / 800 <= hour
\* and wave height > 0.1 m.
C2_Causality ==
    \A k \in DOMAIN sim.simulation_data :
        LET s == sim.simulation_data[k]
        IN  /\ s.distance <= 800 * s.hour
            /\ 10 * s.wave_height > 1000000

C2_Witness ==
    /\ sim.pc = "returned"
    /\ \E k \in DOMAIN sim.simulation_data :
          /\ sim.simulation_data[k].hour = 2
          /\ sim.simulation_data[k].distance > 800

\* C3: the simulator does not return a result when hours_ahead < 0 or
\* magnitude <= 0 (it fails with InvalidParameter instead).
C3_InvalidParameterFails ==
    sim.pc = "returned" => ~(sim.hours_ahead < 0 \/ sim.magnitude <= 0)

\* C4: the arrival estimator does not return estimates when the epicenter
\* latitude is outside [-90, 90] or its longitude outside [-180, 180] (it fails
\* with InvalidCoordinate instead).
C4_InvalidCoordinateFails ==
    arr.pc = "returned" =>
        /\ Abs(arr.eq_lat) <= 9000
        /\ Abs(arr.eq_lon) <= 18000

\* C5: for well-formed input (latitude in [-90, 90], longitude in [-180, 180],
\* magnitude > 0, hours_ahead >= 0) the simulator raises no error, also for
\* epicenters whose latitude grid extends past the poles.
C5_TotalOnWellFormedInput ==
    (/\ sim.pc # "none"
     /\ Abs(sim.eq_lat) <= 9000
     /\ Abs(sim.eq_lon) <= 18000
     /\ sim.magnitude > 0
     /\ sim.hours_ahead >= 0) => sim.pc # "raised"

\* C6: within one call of the arrival estimator, estimated_arrival minus the
\* travel time is the same instant for every reference point.
C6_SingleNow ==
    arr.pc \in {"loop", "returned"} =>
        \A i, j \in DOMAIN arr.arrival_times :
            arr.arrival_times[i].estimated_arrival
                - timedelta_hours(arr.arrival_times[i].travel_time_hours)
            = arr.arrival_times[j].estimated_arrival
                - timedelta_hours(arr.arrival_times[j].travel_time_hours)

\* C7: for an alert whose earthquake has an event time, every reference
\* point's estimated_arrival is the event time plus the travel time.
C7_ArrivalFromEventTime ==
    \A i \in DOMAIN tsunami_alerts :
        tsunami_alerts[i].time # None =>
            \A k \in DOMAIN tsunami_alerts[i].estimated_arrival :
                tsunami_alerts[i].estimated_arrival[k].estimated_arrival
                = tsunami_alerts[i].time
                  + timedelta_hours(tsunami_alerts[i].estimated_arrival[k].travel_time_hours)

C9_HourMajor ==
    \A k \in DOMAIN sim.simulation_data :
        k > 1 => sim.simulation_data[k - 1].hour <= sim.simulation_data[k].hour

C9_Witness ==
    /\ sim.pc = "returned"
    /\ \E k \in DOMAIN sim.simulation_data :
          /\ k > 1
          /\ sim.simulation_data[k - 1].hour = 1
          /\ sim.simulation_data[k].hour = 2

\* C10: for magnitude <= 6 and hours_ahead >= 0 the simulator returns an empty
\* sequence, for every epicenter.
C10_BelowFloorReturnsEmpty ==
    (/\ sim.pc \in {"returned", "raised"}
     /\ sim.magnitude <= 600
     /\ sim.hours_ahead >= 0) =>
        /\ sim.pc = "returned"
        /\ sim.simulation_data = << >>


\* position of a tier in the order MINIMAL < LOW < MEDIUM < HIGH < EXTREME
TierRank(tier) ==
    CASE tier = "MINIMAL" -> 0
      [] tier = "LOW"     -> 1
      [] tier = "MEDIUM"  -> 2
      [] tier = "HIGH"    -> 3
      [] tier = "EXTREME" -> 4

\* C11: at one fixed depth of at most 50 km, the tier the classifier returns
\* never goes down when the magnitude goes up, in the order
\* MINIMAL < LOW < MEDIUM < HIGH < EXTREME.
C11_MonotoneInMagnitude ==
    (/\ cls.pc = "returned"
     /\ cls.depth <= Hundredths(50, 0)
     /\ cls.magnitude <= cls.other_magnitude) =>
        /\ cls.result \in Tiers
        /\ cls.other_result \in Tiers
        /\ TierRank(cls.result) <= TierRank(cls.other_result)

C11_Witness ==
    /\ cls.pc = "returned"
    /\ cls.depth = Hundredths(50, 0)
    /\ cls.magnitude = Hundredths(7, 50)
    /\ cls.other_magnitude = Hundredths(8, 0)
    /\ cls.result = "MEDIUM"
    /\ cls.other_result = "HIGH"

\* the keys of the result
CityNames ==
    {"Honolulu, HI", "Los Angeles, CA", "San Francisco, CA", "Seattle, WA",
     "Tokyo, Japan", "Manila, Philippines", "Sydney, Australia",
     "Vladivostok, Russia"}

\* C12: whenever the arrival estimator returns, its result has exactly eight
\* entries, one for each of the eight named cities and no city twice, whatever
\* the epicenter, and every entry carries distance_km, travel_time_hours and
\* estimated_arrival.
C12_EightNamedCities ==
    arr.pc = "returned" =>
        /\ Len(arr.arrival_times) = 8
        /\ {arr.arrival_times[k].city : k \in DOMAIN arr.arrival_times} = CityNames
        /\ \A k, l \in DOMAIN arr.arrival_times :
              arr.arrival_times[k].city = arr.arrival_times[l].city => k = l
        /\ \A k \in DOMAIN arr.arrival_times :
              DOMAIN arr.arrival_times[k] =
                  {"city", "distance_km", "travel_time_hours", "estimated_arrival"}

C12_Witness ==
    /\ arr.pc = "returned"
    /\ arr.eq_lat = 0
    /\ arr.eq_lon = Hundredths(0 - 200, 0)
    /\ Len(arr.arrival_times) = 8
    /\ arr.arrival_times[8].city = "Vladivostok, Russia"

\* C13: in every entry of the arrival estimator travel_time_hours is
\* distance_km / 800 (here to the thousandth of an hour), the same 800 km/h for
\* every city; it is never negative, it is below 0.2 h for a city closer than
\* 100 km, and for the epicenter (35.0, 140.0) Tokyo is closer than 100 km
\* with a travel time below 0.2 h.
C13_TravelTimeAt800 ==
    \A k \in DOMAIN arr.arrival_times :
        LET entry == arr.arrival_times[k]
        IN  /\ 800 * entry.travel_time_hours <= 1000 * entry.distance_km
            /\ 1000 * entry.distance_km < 800 * (entry.travel_time_hours + 1)
            /\ entry.distance_km >= 0
            /\ entry.travel_time_hours >= 0
            /\ (entry.distance_km < 100 => entry.travel_time_hours < 200)
            /\ (/\ arr.eq_lat = Hundredths(35, 0)
                /\ arr.eq_lon = Hundredths(140, 0)
                /\ entry.city = "Tokyo, Japan") =>
                   /\ entry.distance_km < 100
                   /\ entry.travel_time_hours < 200

C13_Witness ==
    /\ arr.pc = "returned"
    /\ arr.eq_lat = Hundredths(35, 0)
    /\ arr.eq_lon = Hundredths(140, 0)
    /\ arr.arrival_times[5].city = "Tokyo, Japan"
    /\ arr.arrival_times[5].distance_km < 100
    /\ arr.arrival_times[5].distance_km > 0
    /\ arr.arrival_times[1].distance_km > 100

\* the (distance, wave height) pairs of the samples of one simulation
DistanceHeights ==
    {<<sim.simulation_data[k].distance, sim.simulation_data[k].wave_height>> :
        k \in DOMAIN sim.simulation_data}

\* C14: among the samples one simulation returns, a sample farther from the
\* epicenter has a strictly lower wave height, and samples at the same
\* distance have the same wave height.
C14_HeightDecreasesWithDistance ==
    sim.pc = "returned" =>
        \A p, q \in DistanceHeights :
            /\ (p[1] < q[1] => p[2] > q[2])
            /\ (p[1] = q[1] => p[2] = q[2])

C14_Witness ==
    /\ sim.pc = "returned"
    /\ \E k, l \in DOMAIN sim.simulation_data :
          /\ sim.simulation_data[k].distance < sim.simulation_data[l].distance
          /\ sim.simulation_data[k].distance + 2 >= sim.simulation_data[l].distance
          /\ sim.simulation_data[k].wave_height > sim.simulation_data[l].wave_height
    /\ \E k, l \in DOMAIN sim.simulation_data :
          /\ k # l
          /\ sim.simulation_data[k].distance = sim.simulation_data[l].distance

\* the samples of the hours 0..hour, in the order the loop appends them
RECURSIVE hours_through(_, _, _, _)
hours_through(eq_lat, eq_lon, magnitude, hour) ==
    IF hour < 0 THEN << >>
    ELSE extended(hours_through(eq_lat, eq_lon, magnitude, hour - 1),
                  hour_samples(eq_lat, eq_lon, magnitude, hour,
                               sampled_lats(eq_lat), sampled_lons(eq_lon), 1))

\* the value a call that returns returns
simulate_wave_propagation(eq_lat, eq_lon, magnitude, hours_ahead) ==
    hours_through(eq_lat, eq_lon, magnitude, hours_ahead)

\* C15: when calls of the classifier, the arrival estimator and the simulator
\* run concurrently, each returns what it returns when run alone on the same
\* inputs from the instant it was called (the clock is 0 when the calls
\* start), whatever the interleaving of their steps.
C15_SameResultAsAlone ==
    /\ cls.pc = "returned" =>
          cls.result = calculate_tsunami_threat(cls.magnitude, cls.depth)
    /\ sim.pc = "returned" =>
          sim.simulation_data =
              simulate_wave_propagation(sim.eq_lat, sim.eq_lon, sim.magnitude,
                                        sim.hours_ahead)
    /\ arr.pc = "returned" =>
          arr.arrival_times =
              calculate_tsunami_arrival_times(arr.eq_lat, arr.eq_lon, 0)

\* C17: every earthquake record of the session's data, from which the records
\* passed to the classifier and the arrival estimator are taken, has
\* magnitude > 0, depth >= 0 and a latitude and a longitude that are not null,
\* whatever the feed held; so has every record an alert was computed from.
C17_SanitizedRecords ==
    /\ \A k \in DOMAIN earthquake_data.rows :
          LET eq == earthquake_data.rows[k]
          IN  /\ eq.magnitude # None
              /\ eq.magnitude > 0
              /\ eq.depth # None
              /\ eq.depth >= 0
              /\ eq.latitude # None
              /\ eq.longitude # None
    /\ \A i \in DOMAIN tsunami_alerts :
          /\ tsunami_alerts[i].magnitude > 0
          /\ tsunami_alerts[i].latitude # None
          /\ tsunami_alerts[i].longitude # None

\* the feed held a null and a negative magnitude, a negative depth and a
\* missing depth; the negative depth became 0 and its record got an alert
C17_Witness ==
    /\ alerts_from = "computed"
    /\ {earthquake_data.rows[k].id : k \in DOMAIN earthquake_data.rows} = {"e", "f"}
    /\ \A k \in DOMAIN earthquake_data.rows : earthquake_data.rows[k].depth = 0
    /\ \E k \in DOMAIN earthquake_data.rows :
          earthquake_data.rows[k].magnitude = Hundredths(0, 10)
    /\ \E i \in DOMAIN tsunami_alerts : tsunami_alerts[i].earthquake_id = "e"

\* the (hour, latitude, longitude) triples the wave has reached with a height
\* above the floor, over the hours 0..hours_ahead and the evaluated grid
DueSamples ==
    LET lats == sampled_lats(sim.eq_lat)
        lons == sampled_lons(sim.eq_lon)
    IN  {<<h, lats[i], lons[j]>> :
            <<h, i, j>> \in
               {t \in (0..sim.hours_ahead) \X (DOMAIN lats) \X (DOMAIN lons) :
                   LET distance == geodesic(sim.eq_lat, sim.eq_lon,
                                            lats[t[2]], lons[t[3]])
                   IN  /\ distance <= 800 * t[1]
                       /\ wave_height_of(sim.magnitude, distance) > SignificantWave}}

\* C18: what the simulator returns holds exactly one sample for each hour h in
\* 0..hours_ahead and each evaluated grid point with distance / 800 <= h and
\* wave height > 0.1 m, and nothing else; every sample's hour is in
\* 0..hours_ahead.
C18_ExactlyTheDueSamples ==
    sim.pc = "returned" =>
        LET data == sim.simulation_data
            keys == {<<data[k].hour, data[k].latitude, data[k].longitude>> :
                        k \in DOMAIN data}
        IN  /\ keys = DueSamples
            /\ Len(data) = Cardinality(keys)
            /\ \A k \in DOMAIN data : data[k].hour \in 0..sim.hours_ahead

C18_Witness ==
    /\ sim.pc = "returned"
    /\ sim.hours_ahead = 3
    /\ Len(sim.simulation_data) > 100
    /\ Len(sim.simulation_data) < 400
    /\ \E k \in DOMAIN sim.simulation_data : sim.simulation_data[k].hour = 1
    /\ \E k \in DOMAIN sim.simulation_data : sim.simulation_data[k].hour = 3

\* the offsets from the epicenter of the latitudes and of the longitudes the
\* loops of one hour go through, in hundredths of a degree
LatOffsets ==
    {sampled_lats(sim.eq_lat)[i] - sim.eq_lat : i \in DOMAIN sampled_lats(sim.eq_lat)}

LonOffsets ==
    {sampled_lons(sim.eq_lon)[j] - sim.eq_lon : j \in DOMAIN sampled_lons(sim.eq_lon)}

\* C19 as stated: once the simulator has gone through the grid, for every
\* evaluated point at offset (dlat, dlon) from the epicenter the point at
\* offset (-dlat, -dlon) is evaluated too, to within a hundredth of a degree.
C19_GridCentred ==
    sim.hour >= 1 =>
        \A dlat \in LatOffsets, dlon \in LonOffsets :
            /\ \E mlat \in LatOffsets : Abs(mlat + dlat) <= 1
            /\ \E mlon \in LonOffsets : Abs(mlon + dlon) <= 1

\* C19, amended: the 50 evenly spaced values of each axis are centered on the
\* epicenter (value i and value 49 - i are mirror images, to within a
\* hundredth of a degree), but the evaluated points are the values at indices
\* 0, 5, ..., 45: their offsets run from -20 to +16.73 degrees of latitude and
\* from -30 to +25.10 degrees of longitude, and every sample lies in that range.
C19_GridFromLowEdge ==
    sim.hour >= 1 =>
        /\ \A i \in 0..49 :
              /\ Abs(lat_range(sim.eq_lat)[i] + lat_range(sim.eq_lat)[49 - i]
                         - 2 * sim.eq_lat) <= 1
              /\ Abs(lon_range(sim.eq_lon)[i] + lon_range(sim.eq_lon)[49 - i]
                         - 2 * sim.eq_lon) <= 1
        /\ LatOffsets = {lat_range(sim.eq_lat)[5 * k] - sim.eq_lat : k \in 0..9}
        /\ LonOffsets = {lon_range(sim.eq_lon)[5 * k] - sim.eq_lon : k \in 0..9}
        /\ \A dlat \in LatOffsets : 0 - 2000 <= dlat /\ dlat <= 1673
        /\ \A dlon \in LonOffsets : 0 - 3000 <= dlon /\ dlon <= 2510
        /\ 0 - 2000 \in LatOffsets /\ 1673 \in LatOffsets
        /\ 0 - 3000 \in LonOffsets /\ 2510 \in LonOffsets
        /\ \A k \in DOMAIN sim.simulation_data :
              /\ sim.simulation_data[k].latitude - sim.eq_lat \in LatOffsets
              /\ sim.simulation_data[k].longitude - sim.eq_lon \in LonOffsets

\* a returned simulation with a sample 20 degrees south of the epicenter and
\* one 16.73 degrees north of it
C19_Witness ==
    /\ sim.pc = "returned"
    /\ \E k \in DOMAIN sim.simulation_data :
          sim.simulation_data[k].latitude - sim.eq_lat = 0 - 2000
    /\ \E k \in DOMAIN sim.simulation_data :
          sim.simulation_data[k].latitude - sim.eq_lat = 1673
    /\ \A k \in DOMAIN sim.simulation_data :
          sim.simulation_data[k].latitude - sim.eq_lat <= 1673

\* the number of samples of one hour in the simulator's output
SamplesOfHour(hour) ==
    Cardinality({k \in DOMAIN sim.simulation_data :
                    sim.simulation_data[k].hour = hour})

\* C20: in every hour the simulator goes through 10 latitudes x 10 longitudes
\* = 100 distinct grid points, the values at every 5th index of 50 evenly
\* spaced values per axis, each within 20 degrees of latitude and 30 degrees of
\* longitude of the epicenter; every sample lies in that box, no hour has more
\* than 100 samples and the output has at most 100 * (hours_ahead + 1).
C20_HundredPointsPerHour ==
    LET lats == sampled_lats(sim.eq_lat)
        lons == sampled_lons(sim.eq_lon)
    IN  /\ DOMAIN lat_range(sim.eq_lat) = 0..49
        /\ DOMAIN lon_range(sim.eq_lon) = 0..49
        /\ \A i \in 1..48 :
              /\ Abs((lat_range(sim.eq_lat)[i + 1] - lat_range(sim.eq_lat)[i])
                     - (lat_range(sim.eq_lat)[i] - lat_range(sim.eq_lat)[i - 1])) <= 1
              /\ Abs((lon_range(sim.eq_lon)[i + 1] - lon_range(sim.eq_lon)[i])
                     - (lon_range(sim.eq_lon)[i] - lon_range(sim.eq_lon)[i - 1])) <= 1
        /\ Len(lats) = 10
        /\ Len(lons) = 10
        /\ \A k \in 1..10 : /\ lats[k] = lat_range(sim.eq_lat)[5 * (k - 1)]
                            /\ lons[k] = lon_range(sim.eq_lon)[5 * (k - 1)]
        /\ Cardinality({<<lats[i], lons[j]>> : i \in DOMAIN lats, j \in DOMAIN lons}) = 100
        /\ \A i \in DOMAIN lats : Abs(lats[i] - sim.eq_lat) <= Hundredths(20, 0)
        /\ \A j \in DOMAIN lons : Abs(lons[j] - sim.eq_lon) <= Hundredths(30, 0)
        /\ \A k \in DOMAIN sim.simulation_data :
              /\ Abs(sim.simulation_data[k].latitude - sim.eq_lat) <= Hundredths(20, 0)
              /\ Abs(sim.simulation_data[k].longitude - sim.eq_lon) <= Hundredths(30, 0)
        /\ \A hour \in 0..sim.hours_ahead : SamplesOfHour(hour) <= 100
        /\ Len(sim.simulation_data) <= 100 * (sim.hours_ahead + 1)

\* a returned simulation whose last hour has 90 samples or more, one of them
\* on the southern edge of the box
C20_Witness ==
    /\ sim.pc = "returned"
    /\ sim.hours_ahead = 3
    /\ SamplesOfHour(3) >= 90
    /\ \E k \in DOMAIN sim.simulation_data :
          sim.simulation_data[k].latitude - sim.eq_lat = 0 - Hundredths(20, 0)

\* the samples of the simulator's output, as a set
SampleSet == {sim.simulation_data[k] : k \in DOMAIN sim.simulation_data}

\* C21: in what the simulator returns, a grid point with a sample at hour h
\* has a sample at every later hour up to hours_ahead, with the same
\* wave_height and distance; so the number of samples of an hour is never
\* below that of the hour before.
C21_PointsPersist ==
    sim.pc = "returned" =>
        /\ \A s \in SampleSet :
              \A later \in (s.hour + 1)..sim.hours_ahead :
                  [s EXCEPT !.hour = later] \in SampleSet
        /\ \A hour \in 1..sim.hours_ahead :
              SamplesOfHour(hour - 1) <= SamplesOfHour(hour)

\* a returned simulation with samples from hour 1 on and more of them at
\* hour 3 than at hour 1
C21_Witness ==
    /\ sim.pc = "returned"
    /\ sim.hours_ahead = 3
    /\ SamplesOfHour(1) > 0
    /\ SamplesOfHour(1) < SamplesOfHour(2)
    /\ SamplesOfHour(2) < SamplesOfHour(3)

\* the alert comes from a record of the current earthquake data that passes
\* the current thresholds
FromCurrentData(alert) ==
    \E k \in DOMAIN earthquake_data.rows :
        LET eq == earthquake_data.rows[k]
        IN  /\ eq.id = alert.earthquake_id
            /\ eq.magnitude >= widgets.tsunami_threshold
            /\ eq.depth <= widgets.depth_threshold
            /\ eq.time # None
            /\ eq.time >= clock - Day

\* C22: when a dashboard run has ended, every alert of the session's
\* tsunami_alerts comes from an earthquake of the current earthquake data that
\* passes the current thresholds (magnitude, depth, last 24 hours), also when
\* the alert function's cache was hit, when the NOAA source is off and when
\* the earthquake data is empty.
C22_NoStaleAlerts ==
    run_pc = "done" =>
        \A i \in DOMAIN tsunami_alerts : FromCurrentData(tsunami_alerts[i])

\* C23: the earthquake fetch returns a table on every path (status 200, any
\* other status, an exception), so the session's earthquake_data is always a
\* table and no run stops at an emptiness check on it.
C23_FetchReturnsTable ==
    /\ earthquake_data.kind = "DataFrame"
    /\ usgs_cache.valid => usgs_cache.value.kind = "DataFrame"
    /\ run_pc # "crashed"

\* C24: no sample has hour 0: no evaluated offset is zero in latitude or in
\* longitude, so every evaluated grid point is at a positive distance from the
\* epicenter with a positive travel time, and the hour-0 frame is empty.
C24_NoSampleAtHourZero ==
    /\ 0 \notin LatOffsets
    /\ 0 \notin LonOffsets
    /\ ~grid_raises(sim.eq_lat) =>
          \A i \in DOMAIN sampled_lats(sim.eq_lat), j \in DOMAIN sampled_lons(sim.eq_lon) :
              LET distance == geodesic(sim.eq_lat, sim.eq_lon,
                                       sampled_lats(sim.eq_lat)[i],
                                       sampled_lons(sim.eq_lon)[j])
              IN  /\ distance > 0
                  /\ travel_time_of(distance) > 0
    /\ \A k \in DOMAIN sim.simulation_data :
          /\ sim.simulation_data[k].hour >= 1
          /\ sim.simulation_data[k].distance > 0
    /\ SamplesOfHour(0) = 0

\* a returned simulation of a strong earthquake whose nearest grid point, less
\* than 100 km away, has its first sample at hour 1
C24_Witness ==
    /\ sim.pc = "returned"
    /\ sim.magnitude = Hundredths(8, 80)
    /\ sim.hours_ahead >= 1
    /\ \E k \in DOMAIN sim.simulation_data :
          /\ sim.simulation_data[k].distance < 100
          /\ sim.simulation_data[k].hour = 1
=============================================================================
